---------------------------- MODULE Spec2Model ----------------------------
(***************************************************************************)
(* Model of ocean_tools/gravity_waves.py: a library of closed-form         *)
(* formulas for linear internal gravity waves.                             *)
(*                                                                         *)
(* The library is stateless.  A behaviour of the model is one call: the    *)
(* initial state holds the name of the function and its arguments, the     *)
(* single step applies the function and stores what the call produced      *)
(* (a value, an IEEE special value, or a raised ZeroDivisionError).        *)
(*                                                                         *)
(* Arithmetic is exact.  A real number is c*sqrt(n) with c a rational in   *)
(* lowest terms and n a square-free positive integer, which is closed      *)
(* under every product, quotient, square and square root the formulas      *)
(* take of rational inputs.  Floating-point rounding, overflow and signed  *)
(* zeros are not modelled.                                                 *)
(***************************************************************************)
EXTENDS Integers, Sequences, FiniteSets, TLC

VARIABLES op, args, result, pc

vars == <<op, args, result, pc>>

(***************************************************************************)
(* Bounds of the model.                                                    *)
(***************************************************************************)
\* wavenumbers, frequencies and amplitudes range over -MaxK..MaxK
MaxK == 2
\* coordinates and times range over 0..MaxX (in units of pi/4, see NpExp)
MaxX == 1
\* each leading axis of a position stack has 1..MaxP entries
MaxP == 2

Wn == -MaxK..MaxK
Pos == 0..MaxX

(***************************************************************************)
(* Integers and rationals.  A rational is <<num, den>>, den > 0, lowest    *)
(* terms.                                                                  *)
(***************************************************************************)
Abs(i) == IF i < 0 THEN -i ELSE i

Sgn(i) == IF i > 0 THEN 1 ELSE IF i < 0 THEN -1 ELSE 0

RECURSIVE Gcd(_, _)
Gcd(a, b) == IF b = 0 THEN a ELSE Gcd(b, a % b)

Rat(n, d) ==
  LET g == Gcd(Abs(n), Abs(d))
      s == Sgn(d)
  IN  <<(s * n) \div g, (s * d) \div g>>

RZero == <<0, 1>>

\* common factors are cancelled before multiplying
RMul(a, b) ==
  LET g1 == Gcd(Abs(a[1]), b[2])
      g2 == Gcd(Abs(b[1]), a[2])
  IN  <<(a[1] \div g1) * (b[1] \div g2), (a[2] \div g2) * (b[2] \div g1)>>

RInv(a) == Rat(a[2], a[1])

\* over the least common denominator
RAdd(a, b) ==
  LET g == Gcd(a[2], b[2])
  IN  Rat(a[1] * (b[2] \div g) + b[1] * (a[2] \div g), (a[2] \div g) * b[2])

RNeg(a) == <<-a[1], a[2]>>

\* the largest s with s*s dividing p (p >= 1): i runs upwards from 1
RECURSIVE SquarePart(_, _, _)
SquarePart(p, i, best) ==
  IF i * i > p THEN best
  ELSE SquarePart(p, i + 1, IF p % (i * i) = 0 THEN i ELSE best)

\* sqrt(p) = s*sqrt(r) with r square-free, for an integer p >= 1
IntSqrt(p) ==
  LET s == SquarePart(p, 1, 1)
  IN  [s |-> s, r |-> p \div (s * s)]

(***************************************************************************)
(* Float values.  t is "fin" (the real c*sqrt(n)), "nan", "inf", "ninf",   *)
(* "ZeroDivisionError" (the call raised) or "unrepresentable" (a real      *)
(* outside the model's number field; no call of the model produces it).    *)
(* np tells a numpy scalar or array element from a plain Python number:    *)
(* numpy division by zero yields nan or inf, Python's raises.              *)
(***************************************************************************)
Val(t, c, n, np) == [t |-> t, c |-> c, n |-> n, np |-> np]

Fin(c, np) == Val("fin", c, 1, np)

Num(i, np) == Fin(<<i, 1>>, np)

NaN(np) == Val("nan", RZero, 1, np)

Inf(s, np) == Val(IF s > 0 THEN "inf" ELSE "ninf", RZero, 1, np)

Raised == Val("ZeroDivisionError", RZero, 1, FALSE)

Unrep == Val("unrepresentable", RZero, 1, FALSE)

IsFin(a) == a.t = "fin"

IsInf(a) == a.t \in {"inf", "ninf"}

IsZero(a) == a.t = "fin" /\ a.c[1] = 0

\* the sign of a finite or infinite value
SignOf(a) ==
  IF a.t = "inf" THEN 1 ELSE IF a.t = "ninf" THEN -1 ELSE Sgn(a.c[1])

\* the outcome shared by every operation: an exception propagates, so does nan
Absorb(a, b, other) ==
  IF a.t = "ZeroDivisionError" \/ b.t = "ZeroDivisionError" THEN Raised
  ELSE IF a.t = "unrepresentable" \/ b.t = "unrepresentable" THEN Unrep
  ELSE IF a.t = "nan" \/ b.t = "nan" THEN NaN(a.np \/ b.np)
  ELSE other

\* c1*sqrt(n1) * c2*sqrt(n2), in normal form
SurdMul(c1, n1, c2, n2, np) ==
  LET g == Gcd(n1, n2)
      c == RMul(RMul(c1, c2), <<g, 1>>)
  IN  IF c[1] = 0 THEN Val("fin", RZero, 1, np)
      ELSE Val("fin", c, (n1 \div g) * (n2 \div g), np)

XMul(a, b) ==
  LET np == a.np \/ b.np
  IN  Absorb(a, b,
        IF IsInf(a) \/ IsInf(b)
        THEN IF IsZero(a) \/ IsZero(b) THEN NaN(np)
             ELSE Inf(SignOf(a) * SignOf(b), np)
        ELSE SurdMul(a.c, a.n, b.c, b.n, np))

XNeg(a) ==
  IF a.t = "inf" THEN Inf(-1, a.np)
  ELSE IF a.t = "ninf" THEN Inf(1, a.np)
  ELSE IF a.t = "fin" THEN Val("fin", RNeg(a.c), a.n, a.np)
  ELSE a

XAdd(a, b) ==
  LET np == a.np \/ b.np
  IN  Absorb(a, b,
        IF IsInf(a) /\ IsInf(b)
        THEN IF a.t = b.t THEN Inf(SignOf(a), np) ELSE NaN(np)
        ELSE IF IsInf(a) THEN Inf(SignOf(a), np)
        ELSE IF IsInf(b) THEN Inf(SignOf(b), np)
        ELSE IF IsZero(a) THEN Val("fin", b.c, b.n, np)
        ELSE IF IsZero(b) THEN Val("fin", a.c, a.n, np)
        ELSE IF a.n = b.n
             THEN LET c == RAdd(a.c, b.c)
                  IN  IF c[1] = 0 THEN Val("fin", RZero, 1, np)
                      ELSE Val("fin", c, a.n, np)
        ELSE Unrep)

XSub(a, b) == XAdd(a, XNeg(b))

\* a / b where the operation is numpy's iff np: a and b finite, b # 0 gives
\* a.c/(b.c*b.n) * sqrt(a.n*b.n)
DivF(a, b, np) ==
  Absorb(a, b,
    IF IsZero(b)
    THEN IF ~np THEN Raised
         ELSE IF IsZero(a) THEN NaN(np)
         ELSE Inf(SignOf(a), np)
    ELSE IF IsInf(b)
    THEN IF IsInf(a) THEN NaN(np) ELSE Val("fin", RZero, 1, np)
    ELSE IF IsInf(a) THEN Inf(SignOf(a) * SignOf(b), np)
    ELSE SurdMul(a.c, a.n, RMul(RInv(b.c), <<1, b.n>>), b.n, np))

\* Python's / on two plain numbers raises on a zero divisor; with a numpy
\* operand on either side the division is numpy's
XDiv(a, b) == DivF(a, b, a.np \/ b.np)

\* x**2
Pow2(a) == XMul(a, a)

\* the non-negative square root of a value; of a negative one, nan
SqrtF(a, np) ==
  Absorb(a, a,
    IF a.t = "inf" THEN Inf(1, np)
    ELSE IF a.t = "ninf" THEN NaN(np)
    ELSE IF a.c[1] < 0 THEN NaN(np)
    ELSE IF a.c[1] = 0 THEN Val("fin", RZero, 1, np)
    ELSE IF a.n # 1 THEN Unrep
    ELSE LET p == IntSqrt(a.c[1])
             q == IntSqrt(a.c[2])
         IN  Val("fin", Rat(p.s * q.s, a.c[2]), p.r * q.r, np))

\* np.sqrt: the result is a numpy value
NpSqrt(a) == SqrtF(a, TRUE)

\* x**0.5 and x**1.5 keep the operand's kind
Pow05(a) == SqrtF(a, a.np)

Pow15(a) == XMul(a, Pow05(a))

\* equality of what two float values denote, whatever their kind
Same(a, b) == a.t = b.t /\ a.c = b.c /\ a.n = b.n

(***************************************************************************)
(* omega                                                                   *)
(***************************************************************************)
\* omega with N in place of N**2
omega_unsquared(N, k, m, l, f) ==
  LET k2 == Pow2(k)
      m2 == Pow2(m)
      l2 == Pow2(l)
      f2 == Pow2(f)
  IN  NpSqrt(XDiv(XAdd(XMul(f2, m2), XMul(N, XAdd(k2, l2))),
                  XAdd(XAdd(k2, l2), m2)))

omega(N, k, m, l, f) ==
  LET N2 == Pow2(N)
      k2 == Pow2(k)
      m2 == Pow2(m)
      l2 == Pow2(l)
      f2 == Pow2(f)
  IN  NpSqrt(XDiv(XAdd(XMul(f2, m2), XMul(N2, XAdd(k2, l2))),
                  XAdd(XAdd(k2, l2), m2)))

(***************************************************************************)
(* Complex values: a pair of floats.  A raised exception shows in both     *)
(* parts.  Python and numpy multiply complex numbers by the textbook       *)
(* formula and promote a real operand x to x + 0j first.                   *)
(***************************************************************************)
Z(re, im) == [re |-> re, im |-> im]

\* a real promoted to complex
ZOf(x) == Z(x, Fin(RZero, x.np))

\* the literal 1j, a Python complex
J == Z(Num(0, FALSE), Num(1, FALSE))

ZAdd(a, b) == Z(XAdd(a.re, b.re), XAdd(a.im, b.im))

ZNeg(a) == Z(XNeg(a.re), XNeg(a.im))

ZSub(a, b) == Z(XSub(a.re, b.re), XSub(a.im, b.im))

ZMul(a, b) ==
  Z(XSub(XMul(a.re, b.re), XMul(a.im, b.im)),
    XAdd(XMul(a.re, b.im), XMul(a.im, b.re)))

\* complex / real.  Python raises on a zero divisor; numpy divides the two
\* parts by it
ZDivReal(a, x) ==
  LET np == a.re.np \/ a.im.np \/ x.np
  IN  Z(DivF(a.re, x, np), DivF(a.im, x, np))

\* np.real
NpReal(a) == a.re

ZSame(a, b) == Same(a.re, b.re) /\ Same(a.im, b.im)

ZRaised(a) == a.re.t = "ZeroDivisionError" \/ a.im.t = "ZeroDivisionError"

(***************************************************************************)
(* Amplitude ratios.  phi_0 is a complex value.                            *)
(***************************************************************************)
\* U_0 with om in place of om**2
U_0_unsquared(phi_0, k, l, om, f) ==
  ZMul(ZDivReal(ZAdd(ZOf(XMul(k, om)), ZMul(ZMul(J, ZOf(l)), ZOf(f))),
                XSub(om, Pow2(f))),
       phi_0)

U_0(phi_0, k, l, om, f) ==
  ZMul(ZDivReal(ZAdd(ZOf(XMul(k, om)), ZMul(ZMul(J, ZOf(l)), ZOf(f))),
                XSub(Pow2(om), Pow2(f))),
       phi_0)

V_0(phi_0, k, l, om, f) ==
  ZMul(ZDivReal(ZSub(ZOf(XMul(l, om)), ZMul(ZMul(J, ZOf(k)), ZOf(f))),
                XSub(Pow2(om), Pow2(f))),
       phi_0)

W_0(phi_0, m, om, N) ==
  ZMul(ZOf(XDiv(XMul(XNeg(om), m), XSub(Pow2(N), Pow2(om)))), phi_0)

B_0(phi_0, m, om, N) ==
  ZMul(ZDivReal(ZMul(ZMul(J, ZOf(m)), ZOf(Pow2(N))),
                XSub(Pow2(N), Pow2(om))),
       phi_0)

ETA_0(phi_0, m, om, N) ==
  ZDivReal(ZMul(ZMul(phi_0, J), ZOf(m)), XSub(Pow2(N), Pow2(om)))

\* RHO_0 without the minus sign
RHO_0_unsigned(phi_0, m, om, N, g, rho_0) ==
  ZDivReal(ZMul(B_0(phi_0, m, om, N), ZOf(rho_0)), g)

RHO_0(phi_0, m, om, N, g, rho_0) ==
  ZDivReal(ZMul(ZNeg(B_0(phi_0, m, om, N)), ZOf(rho_0)), g)

(***************************************************************************)
(* Phase and fields.  Positions, times and phase_0 are counted in units    *)
(* in which a phase is a multiple of pi/4, so that np.exp of a phase is    *)
(* exact: exp(1j*n*pi/4) has parts in {0, 1, -1, sqrt(2)/2, -sqrt(2)/2}.   *)
(***************************************************************************)
HalfSqrt2(s) == Val("fin", <<s, 2>>, 2, TRUE)

\* cos(n*pi/4) and sin(n*pi/4) for n in 0..7
Cos8(n) ==
  IF n \in {1, 7} THEN HalfSqrt2(1)
  ELSE IF n \in {3, 5} THEN HalfSqrt2(-1)
  ELSE Num(IF n = 0 THEN 1 ELSE IF n = 4 THEN -1 ELSE 0, TRUE)

Sin8(n) == Cos8((n + 6) % 8)

\* np.exp of a purely imaginary argument 1j*n*pi/4, n an integer
NpExp(z) ==
  IF ZRaised(z) THEN Z(Raised, Raised)
  ELSE IF IsZero(z.re) /\ IsFin(z.im) /\ z.im.n = 1 /\ z.im.c[2] = 1
  THEN Z(Cos8(z.im.c[1] % 8), Sin8(z.im.c[1] % 8))
  ELSE Z(Unrep, Unrep)

wave_phase(x, y, z, t, k, l, m, om, U, V, W, phase_0) ==
  ZMul(J,
       ZOf(XAdd(XSub(XAdd(XAdd(XMul(k, x), XMul(l, y)), XMul(m, z)),
                     XMul(XAdd(XAdd(XAdd(om, XMul(k, U)), XMul(l, V)),
                               XMul(m, W)),
                          t)),
                phase_0)))

phi(x, y, z, t, phi_0, k, l, m, om, U, V, W, phase_0) ==
  LET phase == wave_phase(x, y, z, t, k, l, m, om, U, V, W, phase_0)
  IN  NpReal(ZMul(phi_0, NpExp(phase)))

u(x, y, z, t, phi_0, k, l, m, om, f, U, V, W, phase_0) ==
  LET amplitude == U_0(phi_0, k, l, om, f)
      phase == wave_phase(x, y, z, t, k, l, m, om, U, V, W, phase_0)
  IN  NpReal(ZMul(amplitude, NpExp(phase)))

v(x, y, z, t, phi_0, k, l, m, om, f, U, V, W, phase_0) ==
  LET amplitude == V_0(phi_0, k, l, om, f)
      phase == wave_phase(x, y, z, t, k, l, m, om, U, V, W, phase_0)
  IN  NpReal(ZMul(amplitude, NpExp(phase)))

w(x, y, z, t, phi_0, k, l, m, om, N, U, V, W, phase_0) ==
  LET amplitude == W_0(phi_0, m, om, N)
      phase == wave_phase(x, y, z, t, k, l, m, om, U, V, W, phase_0)
  IN  NpReal(ZMul(amplitude, NpExp(phase)))

b(x, y, z, t, phi_0, k, l, m, om, N, U, V, W, phase_0) ==
  LET amplitude == B_0(phi_0, m, om, N)
      phase == wave_phase(x, y, z, t, k, l, m, om, U, V, W, phase_0)
  IN  NpReal(ZMul(amplitude, NpExp(phase)))

rho(x, y, z, t, phi_0, k, l, m, om, N, U, V, W, phase_0, g, rho_0) ==
  LET amplitude == RHO_0(phi_0, m, om, N, g, rho_0)
      phase == wave_phase(x, y, z, t, k, l, m, om, U, V, W, phase_0)
  IN  NpReal(ZMul(amplitude, NpExp(phase)))

eta(x, y, z, t, phi_0, k, l, m, om, N, U, V, W, phase_0) ==
  LET amplitude == ETA_0(phi_0, m, om, N)
      phase == wave_phase(x, y, z, t, k, l, m, om, U, V, W, phase_0)
  IN  NpReal(ZMul(amplitude, NpExp(phase)))

(***************************************************************************)
(* Group velocity, geometry and energy.  An angle is kept as its cosine    *)
(* and sine: np.arcsin(s) is the angle in [-pi/2, pi/2] whose sine is s,   *)
(* so its cosine is sqrt(1 - s^2); np.arctan2(l, k) is the angle of the    *)
(* point (k, l), and 0 at the origin.                                      *)
(***************************************************************************)
Angle(c, s) == [cos |-> c, sin |-> s]

NpArcsin(s) ==
  LET c == NpSqrt(XSub(Num(1, TRUE), Pow2(s)))
  IN  IF c.t = "nan" THEN Angle(c, c) ELSE Angle(c, Val(s.t, s.c, s.n, TRUE))

NpArctan2(y, x) ==
  LET h == NpSqrt(XAdd(Pow2(x), Pow2(y)))
  IN  IF IsZero(h) THEN Angle(Num(1, TRUE), Num(0, TRUE))
      ELSE Angle(DivF(x, h, TRUE), DivF(y, h, TRUE))

NpCos(a) == a.cos

NpSin(a) == a.sin

cgz(k, m, N, l, f) ==
  LET num == XMul(XMul(XNeg(m), XSub(Pow2(N), Pow2(f))),
                  XAdd(Pow2(k), Pow2(l)))
      den == XMul(Pow15(XAdd(XAdd(Pow2(k), Pow2(l)), Pow2(m))),
                  Pow05(XAdd(XMul(Pow2(f), Pow2(m)),
                             XMul(Pow2(N), XAdd(Pow2(k), Pow2(l))))))
  IN  XDiv(num, den)

\* phip without the y wavenumber
phip_no_l(k, m, l) ==
  NpArcsin(NpSqrt(XDiv(Pow2(m), XAdd(Pow2(k), Pow2(m)))))

phip(k, m, l) ==
  NpArcsin(NpSqrt(XDiv(Pow2(m), XAdd(XAdd(Pow2(k), Pow2(l)), Pow2(m)))))

lambdap(k, l) == NpArctan2(l, k)

alpha(k, m, l) == NpSqrt(XDiv(XAdd(Pow2(k), Pow2(l)), Pow2(m)))

Half == Fin(<<1, 2>>, FALSE)

Edens(w_0, k, m, l, rho_0) ==
  LET ph == phip(k, m, l)
  IN  XMul(XMul(Half, rho_0), Pow2(XDiv(w_0, NpCos(ph))))

Efluxz(w_0, k, m, N, l, f, rho_0) ==
  XMul(Edens(w_0, k, m, l, rho_0), cgz(k, m, N, l, f))

\* np.abs of a complex value: hypot of its parts
NpAbs(z) ==
  IF ZRaised(z) THEN Raised
  ELSE IF IsInf(z.re) \/ IsInf(z.im) THEN Inf(1, TRUE)
  ELSE NpSqrt(XAdd(Pow2(z.re), Pow2(z.im)))

Mfluxz(phi_0, k, l, m, om, N, f, rho_0) ==
  LET u_amp == NpAbs(U_0(phi_0, k, l, om, f))
      v_amp == NpAbs(V_0(phi_0, k, l, om, f))
      w_amp == NpAbs(W_0(phi_0, m, om, N))
  IN  XMul(XMul(Half, rho_0),
           NpSqrt(XAdd(Pow2(XMul(u_amp, w_amp)), Pow2(XMul(v_amp, w_amp)))))

(***************************************************************************)
(* Arrays and the evaluators over a position stack.  An array is a shape   *)
(* (a tuple of lengths) and its elements by 0-based index tuple; a scalar  *)
(* is the array of shape <<>>.                                             *)
(***************************************************************************)
Idx(shape) ==
  LET top == IF shape = <<>> THEN 0
             ELSE CHOOSE d \in {shape[a] : a \in 1..Len(shape)} :
                    \A a \in 1..Len(shape) : shape[a] <= d
  IN  {i \in [1..Len(shape) -> 0..top] : \A a \in 1..Len(shape) : i[a] < shape[a]}

Arr(shape, data) == [shape |-> shape, data |-> data]

Max(i, j) == IF i >= j THEN i ELSE j

\* the shape two arrays broadcast to (their shapes are compatible)
Broadcast(s1, s2) ==
  LET n == Max(Len(s1), Len(s2))
      D(s, a) == IF a > n - Len(s) THEN s[a - (n - Len(s))] ELSE 1
  IN  [a \in 1..n |-> Max(D(s1, a), D(s2, a))]

\* the element of array a that index i of the broadcast shape reads
At(a, i) ==
  LET d == Len(i) - Len(a.shape)
  IN  a.data[[j \in 1..Len(a.shape) |-> IF a.shape[j] = 1 THEN 0 ELSE i[j + d]]]

\* r[..., c]
Component(r, c) ==
  LET shape == SubSeq(r.shape, 1, Len(r.shape) - 1)
  IN  Arr(shape, [i \in Idx(shape) |-> r.data[Append(i, c)]])

\* np.atleast_2d
AtLeast2d(a) ==
  IF Len(a.shape) = 0 THEN Arr(<<1, 1>>, [i \in Idx(<<1, 1>>) |-> a.data[<<>>]])
  ELSE IF Len(a.shape) = 1
  THEN Arr(<<1>> \o a.shape, [i \in Idx(<<1>> \o a.shape) |-> a.data[Tail(i)]])
  ELSE a

\* np.vstack of three arrays of one shape: joined along the first axis
VStack3(a1, a2, a3) ==
  LET p == AtLeast2d(a1)
      q == AtLeast2d(a2)
      s == AtLeast2d(a3)
      d == p.shape[1]
      shape == <<3 * d>> \o Tail(p.shape)
      Pick(j) == IF j = 0 THEN p ELSE IF j = 1 THEN q ELSE s
  IN  Arr(shape,
          [i \in Idx(shape) |-> Pick(i[1] \div d).data[<<i[1] % d>> \o Tail(i)]])

Reverse(sq) == [a \in 1..Len(sq) |-> sq[Len(sq) + 1 - a]]

\* ndarray.T: the axes reversed
Transpose(a) ==
  Arr(Reverse(a.shape), [i \in Idx(Reverse(a.shape)) |-> a.data[Reverse(i)]])

\* np.real(amp*np.exp(phase)) element by element
RealField(amp, phase) ==
  Arr(phase.shape, [i \in Idx(phase.shape) |-> NpReal(ZMul(amp, NpExp(phase.data[i])))])

\* wave_phase over arrays x, y, z (one shape) and t, with scalar parameters
PhaseArray(x, y, z, t, k, l, m, om, U, V, W, phase_0) ==
  LET shape == Broadcast(x.shape, t.shape)
  IN  Arr(shape,
          [i \in Idx(shape) |->
             wave_phase(At(x, i), At(y, i), At(z, i), At(t, i),
                        k, l, m, om, U, V, W, phase_0)])

\* wave_vel without the final transpose
wave_vel_stacked(r, t, phi_0, N, f, k, l, m, om, U, V, W, phase_0) ==
  LET x == Component(r, 0)
      y == Component(r, 1)
      z == Component(r, 2)
      u_amp == U_0(phi_0, k, l, om, f)
      v_amp == V_0(phi_0, k, l, om, f)
      w_amp == W_0(phi_0, m, om, N)
      phase == PhaseArray(x, y, z, t, k, l, m, om, U, V, W, phase_0)
  IN  IF ZRaised(u_amp) \/ ZRaised(v_amp) \/ ZRaised(w_amp) THEN Raised
      ELSE VStack3(RealField(u_amp, phase),
                   RealField(v_amp, phase),
                   RealField(w_amp, phase))

wave_vel(r, t, phi_0, N, f, k, l, m, om, U, V, W, phase_0) ==
  LET x == Component(r, 0)
      y == Component(r, 1)
      z == Component(r, 2)
      u_amp == U_0(phi_0, k, l, om, f)
      v_amp == V_0(phi_0, k, l, om, f)
      w_amp == W_0(phi_0, m, om, N)
      phase == PhaseArray(x, y, z, t, k, l, m, om, U, V, W, phase_0)
  IN  IF ZRaised(u_amp) \/ ZRaised(v_amp) \/ ZRaised(w_amp) THEN Raised
      ELSE Transpose(VStack3(RealField(u_amp, phase),
                             RealField(v_amp, phase),
                             RealField(w_amp, phase)))

buoy(r, t, phi_0, N, k, l, m, om, U, V, W, phase_0) ==
  LET x == Component(r, 0)
      y == Component(r, 1)
      z == Component(r, 2)
      b_amp == B_0(phi_0, m, om, N)
      phase == PhaseArray(x, y, z, t, k, l, m, om, U, V, W, phase_0)
  IN  IF ZRaised(b_amp) THEN Raised ELSE RealField(b_amp, phase)

\* the result is the numpy array mag*dir, of shape (3,)
cgvec(k, l, m, N, f) ==
  LET om == omega(N, k, m, l, f)
      ph == phip(k, m, l)
      lamb == lambdap(k, l)
      mag == XDiv(XMul(XMul(NpCos(ph), NpSin(ph)), XSub(Pow2(N), Pow2(f))),
                  XMul(om, NpSqrt(XAdd(XAdd(Pow2(k), Pow2(l)), Pow2(m)))))
      dir == <<XMul(NpSin(ph), NpCos(lamb)),
               XMul(NpSin(ph), NpSin(lamb)),
               XNeg(NpCos(ph))>>
  IN  IF mag.t = "ZeroDivisionError" THEN Raised
      ELSE Arr(<<3>>, [i \in Idx(<<3>>) |-> XMul(mag, dir[i[1] + 1])])

(***************************************************************************)
(* Calls.  The arguments of a call are integers (phi_0 a pair <<re, im>>,  *)
(* g a rational); args.np tells whether the caller passes numpy scalars    *)
(* or plain Python numbers.  A position stack is always a numpy array.     *)
(***************************************************************************)
NoResult == [t |-> "none"]

\* the argument named x as a float of the call's kind
A(x) == Num(args[x], args.np)

\* the complex argument phi_0
APhi == Z(Num(args.phi_0[1], args.np), Num(args.phi_0[2], args.np))

\* the rational argument g
AG == Fin(args.g, args.np)

\* an integer array as a numpy array of floats
ANp(a) == Arr(a.shape, [i \in DOMAIN a.data |-> Num(a.data[i], TRUE)])

\* the defaults of rho_0, and of g as a rational
Rho0Dens == 1025
Rho0Rho == 1000
GDefault == <<-981, 100>>

Phi0s == {<<1, 0>>, <<0, 1>>, <<1, 2>>}
Gs == {GDefault, <<2, 1>>}
Rho0s == {Rho0Rho, -1}

\* y, z, l, the mean flow and the phase offset of a field evaluation
Frames ==
  { [y |-> 0, z |-> 0, l |-> 0, U |-> 0, V |-> 0, W |-> 0, phase_0 |-> 0],
    [y |-> 1, z |-> 1, l |-> 1, U |-> 1, V |-> 0, W |-> -1, phase_0 |-> 1] }

\* f, and in cgz and cgvec l or N, enter the formulas squared only: they range
\* over 0..MaxK
omegaArgs == [N : Wn, k : Wn, m : Wn, l : Wn, f : 0..MaxK, np : BOOLEAN]
cgzArgs == [k : Wn, m : Wn, N : Wn, l : 0..MaxK, f : 0..MaxK, np : BOOLEAN]
cgvecArgs == [k : Wn, l : Wn, m : Wn, N : 0..MaxK, f : 0..MaxK, np : BOOLEAN]
phipArgs == [k : Wn, m : Wn, l : Wn, np : BOOLEAN]
lambdapArgs == [k : Wn, l : Wn, np : BOOLEAN]
alphaArgs == [k : Wn, m : Wn, l : Wn, np : BOOLEAN]
EdensArgs == [w_0 : Wn, k : Wn, m : Wn, l : Wn, rho_0 : {Rho0Dens, 1}, np : BOOLEAN]
EfluxzArgs ==
  [w_0 : {1}, k : Wn, m : Wn, N : Wn, l : {0, 1}, f : {0, 1}, rho_0 : {Rho0Dens},
   np : BOOLEAN]

UVArgs == [phi_0 : Phi0s, k : Wn, l : Wn, om : Wn, f : Wn, np : BOOLEAN]
WBArgs == [phi_0 : Phi0s, m : Wn, om : Wn, N : Wn, np : BOOLEAN]
RHO_0Args ==
  [phi_0 : Phi0s, m : Wn, om : Wn, N : Wn, g : Gs, rho_0 : Rho0s, np : BOOLEAN]
MfluxzArgs ==
  [phi_0 : {<<1, 2>>}, k : Wn, l : {0, 1}, m : Wn, om : Wn, N : Wn, f : {0, 1},
   rho_0 : {Rho0Dens}, np : BOOLEAN]

\* a record with the fields of both
Join(r1, r2) ==
  [x \in DOMAIN r1 \cup DOMAIN r2 |-> IF x \in DOMAIN r1 THEN r1[x] ELSE r2[x]]

\* arguments of wave_phase, phi, u, v, w, b and eta (each reads the fields it takes)
FieldArgs ==
  { Join(p, fr) :
      p \in [x : Pos, t : Pos, phi_0 : {<<1, 0>>, <<1, 2>>}, k : {-1, 1}, m : {1, -2},
             om : Wn, N : {2}, f : {0, 1}, np : BOOLEAN],
      fr \in Frames }

rhoArgs ==
  { Join(p, fr) :
      p \in [x : Pos, t : Pos, phi_0 : {<<1, 0>>, <<1, 2>>}, k : {-1}, m : Wn,
             om : Wn, N : Wn, g : Gs, rho_0 : Rho0s, np : BOOLEAN],
      fr \in Frames }

(***************************************************************************)
(* Position stacks: the points r0 + j*step, j the row-major position of    *)
(* the point in the stack, and times t0 + j*dt of a shape that broadcasts  *)
(* against the stack's.                                                    *)
(***************************************************************************)
RECURSIVE Linear(_, _)
Linear(i, shape) ==
  IF Len(shape) = 0 THEN 0
  ELSE Linear(SubSeq(i, 1, Len(i) - 1), SubSeq(shape, 1, Len(shape) - 1))
         * shape[Len(shape)] + i[Len(i)]

Stack(S, r0, step) ==
  Arr(S \o <<3>>,
      [i \in Idx(S \o <<3>>) |->
         r0[i[Len(i)] + 1] + step[i[Len(i)] + 1] * Linear(SubSeq(i, 1, Len(S)), S)])

Times(S, t0, dt) == Arr(S, [i \in Idx(S) |-> t0 + dt * Linear(i, S)])

Shapes ==
  {<<>>} \cup {<<p>> : p \in 1..MaxP} \cup {<<p, q>> : p \in 1..MaxP, q \in 1..MaxP}

Suffixes(S) == {SubSeq(S, a, Len(S)) : a \in 1..Len(S) + 1}

Steps == {<<1, 1, 0>>, <<0, 1, 2>>}

Stacks == {Stack(S, <<x0, 0, 1>>, step) : S \in Shapes, x0 \in Pos, step \in Steps}

Waves ==
  { Join(p, fr) :
      p \in [phi_0 : {<<1, 2>>}, N : {2}, f : {0, 1}, k : {1}, om : {1, 2, 3},
             np : BOOLEAN],
      fr \in {[m |-> 1, l |-> 0, U |-> 0, V |-> 0, W |-> 0, phase_0 |-> 0],
              [m |-> -2, l |-> -1, U |-> 1, V |-> 0, W |-> -1, phase_0 |-> 1]} }

\* the times a stack may be paired with: a scalar, or an array of a trailing
\* part of the stack's leading shape
TimesFor(r) ==
  UNION {{Times(S, t0, 1) : t0 \in Pos} :
           S \in Suffixes(SubSeq(r.shape, 1, Len(r.shape) - 1))}

stackCalls(r) == {Join([r |-> r, t |-> t], wv) : t \in TimesFor(r), wv \in Waves}

stackArgs == UNION {stackCalls(r) : r \in Stacks}

InitOf(o, S) ==
  /\ op = o
  /\ args \in S
  /\ result = NoResult
  /\ pc = "call"

Return(o, val) ==
  /\ pc = "call"
  /\ op = o
  /\ result' = val
  /\ pc' = "done"
  /\ UNCHANGED <<op, args>>

Call_omega == Return("omega", omega(A("N"), A("k"), A("m"), A("l"), A("f")))

Call_cgz == Return("cgz", cgz(A("k"), A("m"), A("N"), A("l"), A("f")))

Call_cgvec == Return("cgvec", cgvec(A("k"), A("l"), A("m"), A("N"), A("f")))

Call_phip == Return("phip", phip(A("k"), A("m"), A("l")))

Call_lambdap == Return("lambdap", lambdap(A("k"), A("l")))

Call_alpha == Return("alpha", alpha(A("k"), A("m"), A("l")))

Call_Edens ==
  Return("Edens", Edens(A("w_0"), A("k"), A("m"), A("l"), A("rho_0")))

Call_Efluxz ==
  Return("Efluxz",
         Efluxz(A("w_0"), A("k"), A("m"), A("N"), A("l"), A("f"), A("rho_0")))

Call_U_0 == Return("U_0", U_0(APhi, A("k"), A("l"), A("om"), A("f")))

Call_V_0 == Return("V_0", V_0(APhi, A("k"), A("l"), A("om"), A("f")))

Call_W_0 == Return("W_0", W_0(APhi, A("m"), A("om"), A("N")))

Call_B_0 == Return("B_0", B_0(APhi, A("m"), A("om"), A("N")))

Call_ETA_0 == Return("ETA_0", ETA_0(APhi, A("m"), A("om"), A("N")))

Call_RHO_0 ==
  Return("RHO_0", RHO_0(APhi, A("m"), A("om"), A("N"), AG, A("rho_0")))

Call_Mfluxz ==
  Return("Mfluxz",
         Mfluxz(APhi, A("k"), A("l"), A("m"), A("om"), A("N"), A("f"), A("rho_0")))

Call_wave_phase ==
  Return("wave_phase",
         wave_phase(A("x"), A("y"), A("z"), A("t"), A("k"), A("l"), A("m"),
                    A("om"), A("U"), A("V"), A("W"), A("phase_0")))

Call_phi ==
  Return("phi",
         phi(A("x"), A("y"), A("z"), A("t"), APhi, A("k"), A("l"), A("m"),
             A("om"), A("U"), A("V"), A("W"), A("phase_0")))

Call_u ==
  Return("u",
         u(A("x"), A("y"), A("z"), A("t"), APhi, A("k"), A("l"), A("m"),
           A("om"), A("f"), A("U"), A("V"), A("W"), A("phase_0")))

Call_v ==
  Return("v",
         v(A("x"), A("y"), A("z"), A("t"), APhi, A("k"), A("l"), A("m"),
           A("om"), A("f"), A("U"), A("V"), A("W"), A("phase_0")))

Call_w ==
  Return("w",
         w(A("x"), A("y"), A("z"), A("t"), APhi, A("k"), A("l"), A("m"),
           A("om"), A("N"), A("U"), A("V"), A("W"), A("phase_0")))

Call_b ==
  Return("b",
         b(A("x"), A("y"), A("z"), A("t"), APhi, A("k"), A("l"), A("m"),
           A("om"), A("N"), A("U"), A("V"), A("W"), A("phase_0")))

Call_rho ==
  Return("rho",
         rho(A("x"), A("y"), A("z"), A("t"), APhi, A("k"), A("l"), A("m"),
             A("om"), A("N"), A("U"), A("V"), A("W"), A("phase_0"), AG,
             A("rho_0")))

Call_eta ==
  Return("eta",
         eta(A("x"), A("y"), A("z"), A("t"), APhi, A("k"), A("l"), A("m"),
             A("om"), A("N"), A("U"), A("V"), A("W"), A("phase_0")))

Call_wave_vel ==
  Return("wave_vel",
         wave_vel(ANp(args.r), ANp(args.t), APhi, A("N"), A("f"), A("k"), A("l"),
                  A("m"), A("om"), A("U"), A("V"), A("W"), A("phase_0")))

Call_buoy ==
  Return("buoy",
         buoy(ANp(args.r), ANp(args.t), APhi, A("N"), A("k"), A("l"), A("m"),
              A("om"), A("U"), A("V"), A("W"), A("phase_0")))

(***************************************************************************)
(* Specifications: one per group of functions, and Spec for the library.   *)
(***************************************************************************)
InitDispersion ==
  \/ InitOf("omega", omegaArgs)
  \/ InitOf("cgz", cgzArgs)
  \/ InitOf("cgvec", cgvecArgs)
  \/ InitOf("phip", phipArgs)
  \/ InitOf("lambdap", lambdapArgs)
  \/ InitOf("alpha", alphaArgs)
  \/ InitOf("Edens", EdensArgs)
  \/ InitOf("Efluxz", EfluxzArgs)

NextDispersion ==
  \/ Call_omega
  \/ Call_cgz
  \/ Call_cgvec
  \/ Call_phip
  \/ Call_lambdap
  \/ Call_alpha
  \/ Call_Edens
  \/ Call_Efluxz

SpecDispersion == InitDispersion /\ [][NextDispersion]_vars

InitAmplitude ==
  \/ InitOf("U_0", UVArgs)
  \/ InitOf("V_0", UVArgs)
  \/ InitOf("W_0", WBArgs)
  \/ InitOf("B_0", WBArgs)
  \/ InitOf("ETA_0", WBArgs)
  \/ InitOf("RHO_0", RHO_0Args)
  \/ InitOf("Mfluxz", MfluxzArgs)

NextAmplitude ==
  \/ Call_U_0
  \/ Call_V_0
  \/ Call_W_0
  \/ Call_B_0
  \/ Call_ETA_0
  \/ Call_RHO_0
  \/ Call_Mfluxz

SpecAmplitude == InitAmplitude /\ [][NextAmplitude]_vars

InitField ==
  \/ InitOf("wave_phase", FieldArgs)
  \/ InitOf("phi", FieldArgs)
  \/ InitOf("u", FieldArgs)
  \/ InitOf("v", FieldArgs)
  \/ InitOf("w", FieldArgs)
  \/ InitOf("b", FieldArgs)
  \/ InitOf("rho", rhoArgs)
  \/ InitOf("eta", FieldArgs)

NextField ==
  \/ Call_wave_phase
  \/ Call_phi
  \/ Call_u
  \/ Call_v
  \/ Call_w
  \/ Call_b
  \/ Call_rho
  \/ Call_eta

SpecField == InitField /\ [][NextField]_vars

InitStack ==
  \/ InitOf("wave_vel", stackArgs)
  \/ InitOf("buoy", stackArgs)

NextStack ==
  \/ Call_wave_vel
  \/ Call_buoy

SpecStack == InitStack /\ [][NextStack]_vars

Init == InitDispersion \/ InitAmplitude \/ InitField \/ InitStack

Next == NextDispersion \/ NextAmplitude \/ NextField \/ NextStack

Spec == Init /\ [][Next]_vars

Done(o) == pc = "done" /\ op = o

(***************************************************************************)
(* Properties of the dispersion relation, group velocity and energy.       *)
(***************************************************************************)
HorizSq == args.k * args.k + args.l * args.l

KappaSq == HorizSq + args.m * args.m

\* f^2 m^2 + N^2 (k^2 + l^2), the square of omega's numerator
RootSq == args.f * args.f * args.m * args.m + args.N * args.N * HorizSq

C1_Case ==
  /\ Done("omega")
  /\ args.l = 0
  /\ args.f = 0
  /\ args.k # 0 \/ args.m # 0

\* r^2 (k^2 + m^2) = N^2 k^2
C1_Magnitude ==
  /\ IsFin(result)
  /\ Same(XMul(Pow2(result), Num(args.k * args.k + args.m * args.m, TRUE)),
          Num(args.N * args.N * args.k * args.k, TRUE))

\* C1 as stated: with l = 0, f = 0 and (k, m) # (0, 0), omega returns
\* N*|k|/sqrt(k^2 + m^2): r^2 (k^2 + m^2) = N^2 k^2 and r has the sign of N*|k|
C1_Original ==
  C1_Case => C1_Magnitude /\ SignOf(result) = Sgn(args.N * Abs(args.k))

\* C1 amended: with l = 0, f = 0 and (k, m) # (0, 0), omega returns
\* |N|*|k|/sqrt(k^2 + m^2): r^2 (k^2 + m^2) = N^2 k^2 and r >= 0, r = 0 only
\* when N*k = 0
C1_Amended ==
  C1_Case => C1_Magnitude /\ SignOf(result) = Sgn(Abs(args.N) * Abs(args.k))

\* a negative N with an irrational frequency, from plain Python numbers
C1_Witness ==
  /\ C1_Case
  /\ args.N < 0
  /\ args.k < 0
  /\ args.m # 0
  /\ ~args.np
  /\ result.t = "fin"
  /\ result.n # 1
  /\ SignOf(result) = 1

\* the outcome of a call is a raised exception
Raises(res) ==
  IF "t" \in DOMAIN res THEN res.t = "ZeroDivisionError"
  ELSE IF "re" \in DOMAIN res THEN ZRaised(res)
  ELSE IF "cos" \in DOMAIN res
  THEN res.cos.t = "ZeroDivisionError" \/ res.sin.t = "ZeroDivisionError"
  ELSE FALSE

\* C5: omega with k = l = m = 0 returns NaN, from plain Python numbers as
\* from numpy ones, and no function of the library raises an error
C5_NaNNotRaised ==
  /\ Done("omega") /\ args.k = 0 /\ args.l = 0 /\ args.m = 0 => result.t = "nan"
  /\ pc = "done" => ~Raises(result)

\* 0.5 rho_0 w_0^2 (k^2 + l^2 + m^2)/(k^2 + l^2)
EdensClosedForm ==
  Fin(RMul(Rat(args.rho_0 * args.w_0 * args.w_0, 2), Rat(KappaSq, HorizSq)), TRUE)

\* C6: for k^2 + l^2 # 0, Edens returns
\* 0.5 rho_0 w_0^2 (k^2 + l^2 + m^2)/(k^2 + l^2)
C6_Edens == Done("Edens") /\ HorizSq # 0 => Same(result, EdensClosedForm)

\* Edens(w_0=1, k=1, m=1, l=0, rho_0=1025) has returned 1025
C6_Witness ==
  /\ Done("Edens")
  /\ args.w_0 = 1 /\ args.k = 1 /\ args.m = 1 /\ args.l = 0
  /\ args.rho_0 = Rho0Dens
  /\ Same(result, Num(1025, TRUE))

\* -m (N^2 - f^2) (k^2 + l^2), the numerator of cgz
CgzNum == -args.m * (args.N * args.N - args.f * args.f) * HorizSq

\* r = num/den for den = sqrt((k^2+l^2+m^2)^3 (f^2 m^2 + N^2 (k^2+l^2))) # 0
IsCgzQuotient(r) ==
  /\ IsFin(r)
  /\ SignOf(r) = Sgn(CgzNum)
  /\ Same(XMul(Pow2(r), Num(KappaSq * KappaSq * KappaSq * RootSq, TRUE)),
          Num(CgzNum * CgzNum, TRUE))

\* C8: where the denominator of cgz is zero cgz yields NaN, elsewhere the
\* finite quotient num/den
C8_Cgz ==
  Done("cgz") =>
    IF KappaSq = 0 \/ RootSq = 0 THEN result.t = "nan" ELSE IsCgzQuotient(result)

\* C9: alpha yields NaN for m = 0 and sqrt((k^2 + l^2)/m^2) otherwise
C9_Alpha ==
  Done("alpha") =>
    IF args.m = 0 THEN result.t = "nan"
    ELSE /\ IsFin(result)
         /\ SignOf(result) >= 0
         /\ Same(Pow2(result), Fin(Rat(HorizSq, args.m * args.m), TRUE))

\* C10: where k^2 + l^2 # 0, m # 0 and f^2 m^2 + N^2 (k^2 + l^2) # 0, the
\* third component of cgvec equals cgz
C10_Vertical ==
  Done("cgvec") /\ HorizSq # 0 /\ args.m # 0 /\ RootSq # 0 =>
    /\ ~Raises(result)
    /\ Same(result.data[<<2>>], cgz(A("k"), A("m"), A("N"), A("l"), A("f")))

\* with numpy operands cgz is as C8 says: NaN at a zero denominator, the finite
\* quotient elsewhere
C8_CgzNumpy == args.np => C8_Cgz

\* with numpy operands alpha at m = 0 yields NaN for k = l = 0 and +Inf otherwise
C9_AlphaNumpy ==
  Done("alpha") /\ args.np /\ args.m = 0 =>
    result.t = IF HorizSq = 0 THEN "nan" ELSE "inf"

(***************************************************************************)
(* Properties of the amplitude ratios.                                     *)
(***************************************************************************)
\* (kk/om)*phi_0 as Python evaluates it
Reduced(kk) == ZMul(ZOf(XDiv(kk, A("om"))), APhi)

\* the call of U_0 or V_0 at f = 0 has returned what the reduced formula gives,
\* value or singular outcome
Reduces(o, kk) == Done(o) /\ args.f = 0 => ZSame(result, Reduced(A(kk)))

\* C2 as stated: at f = 0, for every om, om = 0 included, U_0 and V_0 equal
\* (k/om) phi_0 and (l/om) phi_0
C2_Original == Reduces("U_0", "k") /\ Reduces("V_0", "l")

\* C2 amended: at f = 0, for every om # 0, U_0 and V_0 equal (k/om) phi_0
\* and (l/om) phi_0
C2_Amended ==
  pc = "done" /\ op \in {"U_0", "V_0"} /\ args.om # 0 =>
    Reduces("U_0", "k") /\ Reduces("V_0", "l")

\* U_0 at f = 0 has returned a complex amplitude with both parts non-zero
C2_Witness ==
  /\ Done("U_0")
  /\ args.f = 0
  /\ args.om = -2
  /\ args.k # 0
  /\ args.l # 0
  /\ IsFin(result.re) /\ ~IsZero(result.re)
  /\ IsFin(result.im) /\ ~IsZero(result.im)

(***************************************************************************)
(* Properties of the fields.                                               *)
(***************************************************************************)
\* b called with the arguments of the call of rho
BuoyancyOfCall ==
  b(A("x"), A("y"), A("z"), A("t"), APhi, A("k"), A("l"), A("m"), A("om"),
    A("N"), A("U"), A("V"), A("W"), A("phase_0"))

\* C3: for N^2 # om^2 and g # 0, rho = -b*rho_0/g at every point
C3_RhoFromB ==
  Done("rho") /\ args.N * args.N # args.om * args.om /\ args.g[1] # 0 =>
    Same(result, XDiv(XMul(XNeg(BuoyancyOfCall), A("rho_0")), AG))

\* rho has returned a non-zero irrational density at a shifted, moving point
C3_Witness ==
  /\ Done("rho")
  /\ args.N * args.N # args.om * args.om
  /\ args.g = GDefault
  /\ args.rho_0 = Rho0Rho
  /\ args.phi_0 = <<1, 2>>
  /\ args.x # 0 /\ args.t # 0 /\ args.U # 0
  /\ IsFin(result) /\ ~IsZero(result) /\ result.n = 2

(***************************************************************************)
(* Properties of the evaluators over a position stack.                     *)
(***************************************************************************)
\* the leading shape of the stack r
Lead == SubSeq(args.r.shape, 1, Len(args.r.shape) - 1)

\* the coordinate c of the point i of the stack, and the time it is paired with
Coord(i, c) == Num(args.r.data[Append(i, c)], TRUE)

TimeAt(i) == At(ANp(args.t), i)

\* u, v and w called at the point i of the stack
FieldAt(j, i) ==
  IF j = 0
  THEN u(Coord(i, 0), Coord(i, 1), Coord(i, 2), TimeAt(i), APhi, A("k"), A("l"),
         A("m"), A("om"), A("f"), A("U"), A("V"), A("W"), A("phase_0"))
  ELSE IF j = 1
  THEN v(Coord(i, 0), Coord(i, 1), Coord(i, 2), TimeAt(i), APhi, A("k"), A("l"),
         A("m"), A("om"), A("f"), A("U"), A("V"), A("W"), A("phase_0"))
  ELSE w(Coord(i, 0), Coord(i, 1), Coord(i, 2), TimeAt(i), APhi, A("k"), A("l"),
         A("m"), A("om"), A("N"), A("U"), A("V"), A("W"), A("phase_0"))

\* u, v or w raises at some point of the stack
FieldsRaise == \E i \in Idx(Lead), j \in 0..2 : Raises(FieldAt(j, i))

\* the result is the array of shape Lead + (3,) holding u, v, w per point; where
\* u, v, w themselves raise, so does the call
VelocityStack ==
  IF FieldsRaise THEN Raises(result)
  ELSE /\ "shape" \in DOMAIN result
       /\ result.shape = Lead \o <<3>>
       /\ \A i \in Idx(Lead), j \in 0..2 :
            Same(result.data[Append(i, j)], FieldAt(j, i))

C7_AnyShape == Done("wave_vel") => VelocityStack

=============================================================================
